---- MODULE Spec2Model ----
(***************************************************************************)
(* Model of src/Optimizer.py: the Optimizer class that maps a design       *)
(* vector onto the rocket's components, runs the flight simulator, turns    *)
(* the trajectory into a scalar loss and drives the two search stages.      *)
(*                                                                         *)
(* Units.  Lengths are in centimetres, masses in 1/100 kg, stability        *)
(* margins in 1/10 caliber, velocities in 1/10 m/s, altitudes in metres.    *)
(* A loss is an exact fixed-point number: a whole part w and a fraction     *)
(* f / LossDen, or the value +infinity.                                     *)
(***************************************************************************)
EXTENDS Integers, Sequences, FiniteSets, TLC

\* -------------------------------------------------------------------------
\* Bounds of the model
\* -------------------------------------------------------------------------

\* Longest trajectory (number of samples) the simulator returns.
MaxSamples == 2

\* -------------------------------------------------------------------------
\* Program constants
\* -------------------------------------------------------------------------

CRASH_SENTINEL == 99999
LOW_APOGEE_SENTINEL == 100000000
SIM_ERROR_SENTINEL == 100000000
NO_VALID_STAB_SENTINEL == 100000000
FENCE_BASE == 1000000000
FENCE_SLOPE == 10000000
MIN_APOGEE == 100
MIN_RAIL_CM == 244
VERIFY_ROD_CM == 100
MIN_STAB_FLOOR == 16
AVG_STAB_CEIL == 20
MIN_RAIL_EXIT_VEL == 130
PENALTY_SHIFT == 10000
AVG_PENALTY_SHIFT == 100
LOSS_SCALE == 20
LOSS_WEIGHT == 100000

\* self.rocket.getLength() when the search space is built, in cm.
RocketLength == 200

\* -------------------------------------------------------------------------
\* Exact arithmetic
\* -------------------------------------------------------------------------

Abs(a) == IF a < 0 THEN -a ELSE a

RECURSIVE Gcd(_, _)
Gcd(a, b) == IF b = 0 THEN a ELSE Gcd(b, a % b)

Lcm(a, b) == (a * b) \div Gcd(a, b)

RECURSIVE LcmUpTo(_)
LcmUpTo(n) == IF n <= 1 THEN 1 ELSE Lcm(n, LcmUpTo(n - 1))

\* Denominator of the fraction of a loss: fine enough for squares of
\* hundredths and of means of up to MaxSamples tenths.
LossDen == 10000 * LcmUpTo(MaxSamples) * LcmUpTo(MaxSamples)

Fin(w, f) == [cls |-> "fin", w |-> w, f |-> f]
Inf == [cls |-> "inf", w |-> 0, f |-> 0]
Whole(n) == Fin(n, 0)

LossAdd(a, b) ==
    IF a.cls = "inf" \/ b.cls = "inf" THEN Inf
    ELSE Fin(a.w + b.w + ((a.f + b.f) \div LossDen), (a.f + b.f) % LossDen)

LossLT(a, b) ==
    IF a.cls = "inf" THEN FALSE
    ELSE IF b.cls = "inf" THEN TRUE
    ELSE a.w < b.w \/ (a.w = b.w /\ a.f < b.f)

LossLE(a, b) == a = b \/ LossLT(a, b)

\* ((d / den) + shift) ** 2 for d >= 0, exactly:
\* shift^2 + (d*d + 2*shift*d*den) / den^2.
SqShift(d, den, shift) ==
    LET n  == d * d + 2 * shift * d * den
        dd == den * den
    IN  Fin(shift * shift + (n \div dd), (n % dd) * (LossDen \div dd))

\* -------------------------------------------------------------------------
\* Search space and design vectors (Optimizer.__init__)
\* -------------------------------------------------------------------------

Dims == 1..9

\* top_tube_length, bottom_tube_length, fin_height, root_chord, tip_chord,
\* fin_sweep, fin_bottom_offset, vary_mass, vary_position
space ==
    << [low |-> 49, high |-> 100], [low |-> 71, high |-> 125],
       [low |-> 3,  high |-> 25],  [low |-> 3,  high |-> 25],
       [low |-> 1,  high |-> 50],  [low |-> 1,  high |-> 50],
       [low |-> 0,  high |-> 50],  [low |-> 0,  high |-> 40],
       [low |-> 0,  high |-> RocketLength] >>

InBounds(x) == \A i \in Dims : x[i] >= space[i].low /\ x[i] <= space[i].high

xNominal == <<60, 90, 10, 10, 10, 10, 10, 20, 100>>
xHigh    == [i \in Dims |-> space[i].high]
\* tip chord and sweep are three times the root chord
xSwept   == <<60, 90, 10, 10, 30, 30, 10, 20, 100>>
\* shortest bottom tube, longest root chord, largest bottom offset
xAft     == <<60, 71, 10, 25, 10, 10, 50, 20, 100>>

\* tip chord and sweep exceed twice the root chord by as much as in xSwept
xWide    == <<60, 90, 10, 20, 50, 50, 10, 20, 100>>

\* tip chord and sweep exceed twice the root chord by twice as much
xTaper   == <<60, 90, 10, 15, 50, 50, 10, 20, 100>>

\* Candidates of the search stages, and of the loss study.
StageVectors == {xNominal, xAft}
LossVectors  == {xSwept, xHigh}

\* Candidates whose penalties are compared with those of the one evaluated.
CompareVectors == LossVectors \cup {xNominal, xWide, xTaper}

\* The nominal vector with one component one unit outside its bound.
OutVectors ==
    { [xNominal EXCEPT ![i] = space[i].low - 1] : i \in Dims } \cup
    { [xNominal EXCEPT ![i] = space[i].high + 1] : i \in Dims }

Targets == {1524}

\* -------------------------------------------------------------------------
\* Component registry and rocket configuration
\* -------------------------------------------------------------------------

ComponentNames == {"Top Tube", "Bottom Tube", "Trapezoidal Fin Set", "Var Mass"}

\* The configuration loaded from the design file.
InitialRocket ==
    [ topLen |-> 55, botLen |-> 80, finHeight |-> 8, finRoot |-> 12,
      finTip |-> 6, finSweep |-> 5, finOffset |-> 68,
      massOverridden |-> FALSE, overrideMass |-> 0, massOffset |-> 0 ]

\* get_component(name): the handle, or None when no component has the name.
get_component(reg, name) == name \in reg

\* fins.getParent().getLength(), read when the fin set is reached.
\* The fin set is mounted on the bottom tube.
ParentLength(r, parent) == r.botLen

Parents == {"none", "Bottom Tube"}

\* The registries considered: every named component found, or one missing.
Registries == {ComponentNames} \cup {ComponentNames \ {c} : c \in ComponentNames}

\* Launch-rod lengths configured in the design file, in cm.
RodLengths == {100, 244, 400}
StageRods  == {400}

\* parent_len - root_chord - fin_bottom_offset
calculated_pos(r, parent, x) == ParentLength(r, parent) - x[4] - x[7]

\* The setter calls of one application of a design vector, in program
\* order: each names the field it writes.
SetterCalls(reg, parent) ==
    (IF get_component(reg, "Top Tube") THEN <<"topLen">> ELSE << >>)
    \o (IF get_component(reg, "Bottom Tube") THEN <<"botLen">> ELSE << >>)
    \o (IF get_component(reg, "Trapezoidal Fin Set")
        THEN <<"finHeight", "finRoot", "finTip", "finSweep">>
             \o (IF parent # "none" THEN <<"finOffset">> ELSE << >>)
        ELSE << >>)
    \o (IF get_component(reg, "Var Mass")
        THEN <<"massOverridden", "overrideMass", "massOffset">>
        ELSE << >>)

\* The effect of one setter call on the rocket.
SetField(r, field, parent, x) ==
    CASE field = "topLen"         -> [r EXCEPT !.topLen = x[1]]
      [] field = "botLen"         -> [r EXCEPT !.botLen = x[2]]
      [] field = "finHeight"      -> [r EXCEPT !.finHeight = x[3]]
      [] field = "finRoot"        -> [r EXCEPT !.finRoot = x[4]]
      [] field = "finTip"         -> [r EXCEPT !.finTip = x[5]]
      [] field = "finSweep"       -> [r EXCEPT !.finSweep = x[6]]
      [] field = "finOffset"      ->
            [r EXCEPT !.finOffset = calculated_pos(r, parent, x)]
      [] field = "massOverridden" -> [r EXCEPT !.massOverridden = TRUE]
      [] field = "overrideMass"   -> [r EXCEPT !.overrideMass = x[8]]
      [] field = "massOffset"     -> [r EXCEPT !.massOffset = x[9]]

\* The rocket after the first k setter calls took effect.
RECURSIVE ApplyCalls(_, _, _, _, _)
ApplyCalls(r, calls, k, parent, x) ==
    IF k = 0 THEN r
    ELSE SetField(ApplyCalls(r, calls, k - 1, parent, x), calls[k], parent, x)

\* -------------------------------------------------------------------------
\* Simulator output
\* -------------------------------------------------------------------------

St(v)  == [cls |-> "fin", v |-> v]
NaN    == [cls |-> "nan", v |-> 0]
PosInf == [cls |-> "pinf", v |-> 0]
NegInf == [cls |-> "ninf", v |-> 0]

AltVals  == {2, 3, 1524, 3600}
StabVals == {NaN, PosInf, NegInf, St(12), St(16), St(24)}
VelVals  == {120, 130}

NonDecreasing(q) == \A i \in 1..(Len(q) - 1) : q[i] <= q[i + 1]

\* The event logs of a flight of n samples: no burnout event, or a launch
\* followed by a burnout at the time of some sample or one period later.
EventLogs(n) ==
    { << >> } \cup
    { << [type |-> "LAUNCH", time |-> 0], [type |-> "BURNOUT", time |-> t] >> :
        t \in 0..n }

\* A flight; sample i is taken at time i - 1.
Flight(a, s, v, e) == [alt |-> a, stab |-> s, vel |-> v, events |-> e]

\* The series of a flight of n samples: altitude and velocity do not
\* decrease over the samples kept.
IsFlight(n, a, s, v, e) ==
    /\ a \in [1..n -> AltVals] /\ NonDecreasing(a)
    /\ s \in [1..n -> StabVals]
    /\ v \in [1..n -> VelVals] /\ NonDecreasing(v)
    /\ e \in EventLogs(n)

NoFlight == Flight(<< >>, << >>, << >>, << >>)

\* What run_simulation and the reads after it produce: a flight, or an
\* exception.
Flown(data) == [ok |-> TRUE, data |-> data]
SimFailed == [ok |-> FALSE, data |-> NoFlight]

time_arr(data) == [i \in 1..Len(data.alt) |-> i - 1]

\* -------------------------------------------------------------------------
\* Flight evaluation (calculate_loss, "Compute metrics")
\* -------------------------------------------------------------------------

RECURSIVE MaxOf(_)
MaxOf(q) == IF Len(q) = 1 THEN q[1]
            ELSE LET m == MaxOf(Tail(q)) IN IF q[1] > m THEN q[1] ELSE m

\* rail_length, in cm
RailLength(rod) == IF rod < MIN_RAIL_CM THEN MIN_RAIL_CM ELSE rod

\* The time of the first BURNOUT event, else the time of the last sample.
RECURSIVE FirstBurnout(_, _)
FirstBurnout(events, fallback) ==
    IF events = << >> THEN fallback
    ELSE IF Head(events).type = "BURNOUT" THEN Head(events).time
    ELSE FirstBurnout(Tail(events), fallback)

BurnoutTime(data) ==
    LET t == time_arr(data) IN FirstBurnout(data.events, t[Len(t)])

\* np.searchsorted(a, v): how many elements of the sorted a are below v
\* (a 0-based index).
SearchSorted(a, v) == Cardinality({i \in 1..Len(a) : a[i] < v})

\* 0-based index of the first sample at or above the rail length, else 0.
StartIndex(data, rail) ==
    LET idx == {i \in 1..Len(data.alt) : data.alt[i] * 100 >= rail}
    IN  IF idx = {} THEN 0
        ELSE (CHOOSE i \in idx : \A j \in idx : i <= j) - 1

EndIndex(data) == SearchSorted(time_arr(data), BurnoutTime(data))

\* stab_arr[start_index:end_index]
BoostStability(data, rail) ==
    SubSeq(data.stab, StartIndex(data, rail) + 1, EndIndex(data))

IsNan(s) == s.cls = "nan"

\* boost_stability[~np.isnan(boost_stability)]
ValidStab(w) == SelectSeq(w, LAMBDA s : ~IsNan(s))

Has(q, c) == \E i \in 1..Len(q) : q[i].cls = c

RECURSIVE SumOf(_)
SumOf(q) == IF q = << >> THEN 0 ELSE Head(q).v + SumOf(Tail(q))

\* np.min over a non-empty array without NaN
MinStab(v) ==
    IF Has(v, "ninf") THEN NegInf
    ELSE IF ~Has(v, "fin") THEN PosInf
    ELSE LET f == SelectSeq(v, LAMBDA s : s.cls = "fin")
         IN  St(-MaxOf([i \in 1..Len(f) |-> -f[i].v]))

\* np.mean over a non-empty array without NaN: the rational num / den in
\* calibers, or an infinity, or NaN for inf - inf.
AvgStab(v) ==
    IF Has(v, "pinf") /\ Has(v, "ninf") THEN [cls |-> "nan", num |-> 0, den |-> 1]
    ELSE IF Has(v, "pinf") THEN [cls |-> "pinf", num |-> 0, den |-> 1]
    ELSE IF Has(v, "ninf") THEN [cls |-> "ninf", num |-> 0, den |-> 1]
    ELSE [cls |-> "fin", num |-> SumOf(v), den |-> 10 * Len(v)]

\* -------------------------------------------------------------------------
\* Loss composition (calculate_loss, "LOSS CALCULATION")
\* -------------------------------------------------------------------------

\* ((abs(apogee - TARGET_ALTITUDE) / 20.0) ** 2) * 100000
BaseLoss(apogee, target) ==
    Whole(Abs(apogee - target) * Abs(apogee - target)
          * (LOSS_WEIGHT \div (LOSS_SCALE * LOSS_SCALE)))

\* The floor itself counted as a violation.
InstabilityPenaltyAtFloor(min_stab) ==
    CASE min_stab.cls = "ninf" -> Inf
      [] min_stab.cls = "fin" /\ min_stab.v <= MIN_STAB_FLOOR ->
            SqShift(MIN_STAB_FLOOR - min_stab.v, 10, PENALTY_SHIFT)
      [] OTHER -> Whole(0)

\* if min_stab < 1.6: ((1.6 - min_stab) + 10000) ** 2
InstabilityPenalty(min_stab) ==
    CASE min_stab.cls = "ninf" -> Inf
      [] min_stab.cls = "fin" /\ min_stab.v < MIN_STAB_FLOOR ->
            SqShift(MIN_STAB_FLOOR - min_stab.v, 10, PENALTY_SHIFT)
      [] OTHER -> Whole(0)

\* if avg_stab > 2: ((avg_stab - 2) + 100) ** 2
OverstabilityPenalty(avg_stab) ==
    CASE avg_stab.cls = "pinf" -> Inf
      [] avg_stab.cls = "fin"
         /\ avg_stab.num * 10 > AVG_STAB_CEIL * avg_stab.den ->
            SqShift(avg_stab.num - AVG_STAB_CEIL * (avg_stab.den \div 10),
                    avg_stab.den, AVG_PENALTY_SHIFT)
      [] OTHER -> Whole(0)

\* if fin_sweep > 2 * root_chord: ((fin_sweep - root_chord) + 10000) ** 2
SweepPenalty(x) ==
    IF x[6] > 2 * x[4] THEN SqShift(x[6] - x[4], 100, PENALTY_SHIFT)
    ELSE Whole(0)

\* if tip_chord > 2 * root_chord: ((tip_chord - root_chord) + 10000) ** 2
TipPenalty(x) ==
    IF x[5] > 2 * x[4] THEN SqShift(x[5] - x[4], 100, PENALTY_SHIFT)
    ELSE Whole(0)

\* if rail_exit_vel < 13.0: ((13.0 - rail_exit_vel) + 10000) ** 2
RailVelPenalty(rail_exit_vel) ==
    IF rail_exit_vel < MIN_RAIL_EXIT_VEL
    THEN SqShift(MIN_RAIL_EXIT_VEL - rail_exit_vel, 10, PENALTY_SHIFT)
    ELSE Whole(0)

Penalties(x, min_stab, avg_stab, rail_exit_vel) ==
    LossAdd(InstabilityPenalty(min_stab),
    LossAdd(OverstabilityPenalty(avg_stab),
    LossAdd(SweepPenalty(x),
    LossAdd(TipPenalty(x), RailVelPenalty(rail_exit_vel)))))

ComposeLoss(x, target, apogee, min_stab, avg_stab, rail_exit_vel) ==
    LossAdd(BaseLoss(apogee, target),
            Penalties(x, min_stab, avg_stab, rail_exit_vel))

\* -------------------------------------------------------------------------
\* calculate_loss after the design vector was applied: what it returns for
\* one simulator outcome.  kind names the return statement taken; "raise"
\* is an exception that leaves calculate_loss.
\* -------------------------------------------------------------------------

Result(kind, ret, apogee) == [kind |-> kind, ret |-> ret, apogee |-> apogee]

\* A low-apogee return no larger than the crash sentinel.
LowApogeeReturnSmall(apogee) == Result("lowApogee", Whole(CRASH_SENTINEL), apogee)

\* if apogee < 100: return 100000000.0
LowApogeeReturn(apogee) == Result("lowApogee", Whole(LOW_APOGEE_SENTINEL), apogee)

\* if len(valid_stab) == 0: return 100000000.0
NoValidStabReturn(apogee) ==
    Result("noValidStab", Whole(NO_VALID_STAB_SENTINEL), apogee)

EvaluateFlight(x, target, rod, sim) ==
    IF ~sim.ok THEN Result("simError", Whole(SIM_ERROR_SENTINEL), 0)
    ELSE
      LET data   == sim.data
          apogee == MaxOf(data.alt)
          rail   == RailLength(rod)
          start_index == StartIndex(data, rail)
          end_index   == EndIndex(data)
      IN  IF apogee < MIN_APOGEE
          THEN LowApogeeReturn(apogee)
          ELSE IF ~(end_index > start_index)
          \* boost_stability = [] is a list: indexing it with an array raises
          THEN Result("raise", Whole(0), apogee)
          ELSE
            LET valid_stab == ValidStab(BoostStability(data, rail))
                rail_exit_vel == data.vel[start_index + 1]
            IN  IF Len(valid_stab) = 0
                THEN NoValidStabReturn(apogee)
                ELSE Result("loss",
                            ComposeLoss(x, target, apogee, MinStab(valid_stab),
                                        AvgStab(valid_stab), rail_exit_vel),
                            apogee)

\* The setters called outside any try block: the exception escapes.
CalcLossResultUncaught(x, target, rod, failAt, sim) ==
    IF failAt > 0 THEN Result("raise", Whole(0), 0)
    ELSE EvaluateFlight(x, target, rod, sim)

\* The try block around the setters: a raising setter is caught and the
\* crash sentinel returned without running the simulator.  failAt is the
\* position of the setter call that raises, 0 when none does.
CalcLossResult(x, target, rod, failAt, sim) ==
    IF failAt > 0 THEN Result("crash", Whole(CRASH_SENTINEL), 0)
    ELSE EvaluateFlight(x, target, rod, sim)

\* The tracker overwritten with the latest apogee.
TrackBestLatest(best, res) ==
    IF res.kind \in {"loss", "noValidStab", "raise"}
    THEN res.apogee ELSE best

\* if apogee > self.best_apogee: self.best_apogee = apogee, reached only
\* past the apogee < 100 return.
TrackBest(best, res) ==
    IF res.kind \in {"loss", "noValidStab", "raise"} /\ res.apogee > best
    THEN res.apogee ELSE best

\* bounded_objective's penalty for the components outside their bounds.
RECURSIVE FencePenalty(_, _)
FencePenalty(x, i) ==
    IF i = 0 THEN 0
    ELSE FencePenalty(x, i - 1)
         + (IF x[i] < space[i].low
            THEN (space[i].low - x[i]) * (FENCE_SLOPE \div 100)
            ELSE IF x[i] > space[i].high
            THEN (x[i] - space[i].high) * (FENCE_SLOPE \div 100)
            ELSE 0)

\* Only the lower limits checked.
is_out_of_boundsLowOnly(x) == \E i \in Dims : x[i] < space[i].low

is_out_of_bounds(x) == \E i \in Dims : x[i] < space[i].low \/ x[i] > space[i].high

FenceValue(x) == Whole(FENCE_BASE + FencePenalty(x, Len(x)))

\* -------------------------------------------------------------------------
\* State
\* -------------------------------------------------------------------------

VARIABLES
    registry,     \* names get_component finds
    finParent,    \* the fin set's parent: "Bottom Tube" or "none"
    launchRod,    \* the simulation options' launch-rod length, cm
    rocket,       \* the fields the setters write
    hasBest,      \* whether self.best_apogee exists
    best_apogee,  \* self.best_apogee
    phase,        \* "idle", "stage1", "stage2", "verified", "aborted"
    last          \* the last call: its arguments, what it did and returned

vars == <<registry, finParent, launchRod, rocket, hasBest, best_apogee, phase, last>>

NoSim == SimFailed

Call(op, x, target, failAt, simRan, sim, res, rail) ==
    [ op |-> op, x |-> x, target |-> target, failAt |-> failAt,
      simRan |-> simRan, sim |-> sim, kind |-> res.kind, ret |-> res.ret,
      apogee |-> res.apogee, rail |-> rail ]

NoCall == Call("none", xNominal, 0, 0, FALSE, NoSim, Result("none", Whole(0), 0), 0)

InitWith(regs, parents, rods) ==
    /\ registry \in regs
    /\ finParent \in parents
    /\ launchRod \in rods
    /\ rocket = InitialRocket
    /\ hasBest = FALSE
    /\ best_apogee = 0
    /\ phase = "idle"
    /\ last = NoCall

Init == InitWith(Registries, Parents, StageRods)

\* -------------------------------------------------------------------------
\* Operations
\* -------------------------------------------------------------------------

\* calculate_loss(x, TARGET_ALTITUDE), called by a search stage.
calculate_loss(op, x, target, failAt, sim) ==
    \E calls \in {SetterCalls(registry, finParent)} :
    \E res \in {CalcLossResult(x, target, launchRod, failAt, sim)} :
       LET applied == IF failAt = 0 THEN Len(calls) ELSE failAt - 1
           simRan  == failAt = 0
       IN  /\ failAt \in 0..Len(calls)
           /\ rocket' = ApplyCalls(rocket, calls, applied, finParent, x)
           /\ hasBest' = TRUE
           /\ best_apogee' = TrackBest(IF hasBest THEN best_apogee ELSE 0, res)
           /\ phase' = IF res.kind = "raise" THEN "aborted" ELSE phase
           /\ last' = Call(op, x, target, failAt, simRan,
                           IF simRan THEN sim ELSE NoSim, res,
                           IF simRan /\ sim.ok THEN RailLength(launchRod) ELSE 0)
           /\ UNCHANGED <<registry, finParent, launchRod>>

\* One evaluation of the objective: some setter raises, or none does and
\* the simulator answers.
Evaluate(op, x, target, sims) ==
    \/ \E failAt \in 1..Len(SetterCalls(registry, finParent)) :
          calculate_loss(op, x, target, failAt, NoSim)
    \/ \E sim \in sims : calculate_loss(op, x, target, 0, sim)

\* run_stage1_global up to the first evaluation: the tracker is reset.
RunStage1Start ==
    /\ phase \in {"idle", "verified"}
    /\ phase' = "stage1"
    /\ hasBest' = TRUE
    /\ best_apogee' = 0
    /\ last' = [NoCall EXCEPT !.op = "stage1_start"]
    /\ UNCHANGED <<registry, finParent, launchRod, rocket>>

\* objective_wrapper: the global optimizer samples inside the space.
Stage1Eval(vectors, sims) ==
    /\ phase = "stage1"
    /\ \E x \in vectors, target \in Targets :
          /\ InBounds(x)
          /\ Evaluate("stage1", x, target, sims)

\* run_stage2_local up to the first evaluation.
RunStage2Start ==
    /\ phase \in {"idle", "stage1"}
    /\ phase' = "stage2"
    /\ last' = [NoCall EXCEPT !.op = "stage2_start"]
    /\ UNCHANGED <<registry, finParent, launchRod, rocket, hasBest, best_apogee>>

\* bounded_objective(x): the local optimizer may step anywhere.
bounded_objective(x, target, sims) ==
    IF is_out_of_bounds(x)
    THEN /\ last' = Call("stage2", x, target, 0, FALSE, NoSim,
                         Result("fence", FenceValue(x), 0), 0)
         /\ UNCHANGED <<registry, finParent, launchRod, rocket, hasBest,
                        best_apogee, phase>>
    ELSE Evaluate("stage2", x, target, sims)

Stage2Eval(vectors, sims) ==
    /\ phase = "stage2"
    /\ \E x \in vectors, target \in Targets : bounded_objective(x, target, sims)

\* verify_and_save(best_params): the setters run outside any try block, the
\* report of the applied parameters formats calculated_pos (None unless the
\* fin set and its parent were found), the launch rod is set to 1 m and
\* one simulation is run.  An exception leaves verify_and_save.
VerifyOutcome(reg, parent, failAt, sim) ==
    IF failAt > 0 THEN "raise"
    ELSE IF ~(get_component(reg, "Trapezoidal Fin Set") /\ parent # "none")
    THEN "raise"
    ELSE IF ~sim.ok THEN "raise"
    ELSE "report"

\* Whether verify_and_save reaches run_simulation.
VerifyRunsSim(reg, parent, failAt) ==
    /\ failAt = 0
    /\ get_component(reg, "Trapezoidal Fin Set")
    /\ parent # "none"

verify_and_save(x, failAt, sim) ==
    LET calls   == SetterCalls(registry, finParent)
        applied == IF failAt = 0 THEN Len(calls) ELSE failAt - 1
        simRan  == VerifyRunsSim(registry, finParent, failAt)
        kind    == VerifyOutcome(registry, finParent, failAt, sim)
        rod     == IF simRan THEN VERIFY_ROD_CM ELSE launchRod
    IN  /\ failAt \in 0..Len(calls)
        /\ rocket' = ApplyCalls(rocket, calls, applied, finParent, x)
        /\ launchRod' = rod
        /\ phase' = IF kind = "raise" THEN "aborted" ELSE "verified"
        /\ last' = Call("verify", x, 0, failAt, simRan,
                        IF simRan THEN sim ELSE NoSim,
                        Result(kind, Whole(0),
                               IF kind = "report" THEN MaxOf(sim.data.alt) ELSE 0),
                        IF kind = "report" THEN RailLength(rod) ELSE 0)
        /\ UNCHANGED <<registry, finParent, hasBest, best_apogee>>

VerifyAndSave(vectors, sims) ==
    /\ phase = "stage2"
    /\ \E x \in vectors :
          \/ \E failAt \in 1..Len(SetterCalls(registry, finParent)) :
                verify_and_save(x, failAt, NoSim)
          \/ \E sim \in sims : verify_and_save(x, 0, sim)

\* -------------------------------------------------------------------------
\* Specifications
\* -------------------------------------------------------------------------

\* Simulator outcomes of the search study: one-sample flights that leave
\* the rail, with a burnout event, and a simulator failure.
StageSims ==
    { Flown(Flight(<<a>>, <<s>>, <<130>>, e)) :
        a \in AltVals, s \in {NaN, St(16)}, e \in EventLogs(1) \ {<< >>} }
    \cup {SimFailed}

Next ==
    \/ RunStage1Start
    \/ Stage1Eval(StageVectors, StageSims)
    \/ RunStage2Start
    \/ Stage2Eval(StageVectors \cup OutVectors, StageSims)
    \/ VerifyAndSave(StageVectors, StageSims)

Spec == Init /\ [][Next]_vars

\* The loss study: calculate_loss as a function of its inputs.  Every
\* registered component is present, the tracker was reset, and the
\* initial state holds the candidate and the simulator's answer to it,
\* any flight of up to MaxSamples samples; the one step evaluates it.
InitLoss ==
    /\ registry = ComponentNames
    /\ finParent = "Bottom Tube"
    /\ launchRod \in RodLengths
    /\ rocket = InitialRocket
    /\ hasBest = TRUE
    /\ best_apogee = 0
    /\ phase = "stage1"
    /\ \E x \in LossVectors, target \in Targets :
          \/ last = [NoCall EXCEPT !.op = "pending", !.x = x,
                                   !.target = target, !.sim = SimFailed]
          \/ \E n \in 1..MaxSamples :
             \E a \in [1..n -> AltVals], s \in [1..n -> StabVals],
                v \in [1..n -> VelVals], e \in EventLogs(n) :
                /\ IsFlight(n, a, s, v, e)
                /\ last = [NoCall EXCEPT !.op = "pending", !.x = x,
                                         !.target = target,
                                         !.sim = Flown(Flight(a, s, v, e))]

NextLoss ==
    /\ last.op = "pending"
    /\ calculate_loss("stage1", last.x, last.target, 0, last.sim)

SpecLoss == InitLoss /\ [][NextLoss]_vars

\* -------------------------------------------------------------------------
\* Properties
\* -------------------------------------------------------------------------

EvalOps == {"stage1", "stage2"}

\* A step that is a call of calculate_loss (the fence answers without it).
IsCalcLoss(c) == c.op \in EvalOps /\ c.kind # "fence"

\* The samples of the last call's flight inside [start_index, end_index).
LastWindow == BoostStability(last.sim.data, last.rail)
LastValid  == SelectSeq(LastWindow, LAMBDA s : s.cls # "nan")
LastRailExitVel == last.sim.data.vel[StartIndex(last.sim.data, last.rail) + 1]

\* C1: when a setter raises while calculate_loss applies the vector, the
\* call returns the crash sentinel 99999 instead of raising, the search
\* goes on, the simulator is not run, and the raising setter and those
\* after it write nothing.
C1_DesignErrorCaught ==
    [][ (IsCalcLoss(last') /\ last'.failAt > 0) =>
           /\ last'.kind = "crash"
           /\ last'.ret = Whole(99999)
           /\ ~last'.simRan
           /\ phase' = phase
           /\ LET calls == SetterCalls(registry, finParent)
              IN  \A k \in last'.failAt..Len(calls) :
                     rocket'[calls[k]] = rocket[calls[k]] ]_vars

\* C1 witness: the third setter raised during a stage-1 evaluation of an
\* in-bound vector and the crash sentinel came back.
C1_Witness ==
    /\ last.op = "stage1"
    /\ InBounds(last.x)
    /\ last.failAt = 3
    /\ last.kind = "crash"
    /\ rocket.topLen = last.x[1]
    /\ phase = "stage1"

\* What calculate_loss returns for a design error, for a flight below
\* 100 m, and for a flight whose window holds only NaN.
CrashValue == CalcLossResult(xNominal, 1524, 400, 1, NoSim).ret
LowFlight ==
    Flight(<<3>>, <<St(16)>>, <<130>>,
           << [type |-> "LAUNCH", time |-> 0], [type |-> "BURNOUT", time |-> 1] >>)
NanFlight == [LowFlight EXCEPT !.alt = <<1524>>, !.stab = <<NaN>>]
LowApogeeValue ==
    EvaluateFlight(xNominal, 1524, 400, Flown(LowFlight)).ret
AllNanValue ==
    EvaluateFlight(xNominal, 1524, 400, Flown(NanFlight)).ret

\* C2 (as claimed): crash sentinel < low-apogee sentinel < all-NaN
\* sentinel, strictly, for every value returned.
C2_StrictOrdering ==
    /\ last.kind = "crash" => LossLT(last.ret, LowApogeeValue)
    /\ last.kind = "lowApogee" =>
          LossLT(CrashValue, last.ret) /\ LossLT(last.ret, AllNanValue)
    /\ last.kind = "noValidStab" => LossLT(LowApogeeValue, last.ret)

\* C2 (amended): the crash sentinel is strictly below the low-apogee
\* sentinel, and the low-apogee sentinel equals the all-NaN sentinel.
C2_CrashBelowEqualDeath ==
    /\ last.kind = "crash" =>
          LossLT(last.ret, LowApogeeValue) /\ LossLT(last.ret, AllNanValue)
    /\ last.kind = "lowApogee" =>
          LossLT(CrashValue, last.ret) /\ last.ret = AllNanValue
    /\ last.kind = "noValidStab" =>
          LossLT(CrashValue, last.ret) /\ last.ret = LowApogeeValue

\* C2 witness: a flight below 100 m was just evaluated.
C2_Witness ==
    /\ last.kind = "lowApogee"
    /\ last.simRan
    /\ last.apogee < 100
    /\ last.ret = AllNanValue

\* The five constraints of the last evaluated flight, stated on its data.
MinStabOK ==
    \A i \in 1..Len(LastValid) :
        LastValid[i].cls = "pinf" \/ (LastValid[i].cls = "fin" /\ LastValid[i].v >= 16)
AvgStabOK ==
    /\ \A i \in 1..Len(LastValid) : LastValid[i].cls = "fin"
    /\ SumOf(LastValid) <= 20 * Len(LastValid)
SweepOK == last.x[6] <= 2 * last.x[4]
TipOK == last.x[5] <= 2 * last.x[4]
RailVelOK == LastRailExitVel >= 130
AllSlack == MinStabOK /\ AvgStabOK /\ SweepOK /\ TipOK /\ RailVelOK

\* C3: the loss of a valid, stable design with no constraint violated is
\* strictly below every sentinel calculate_loss returns.
C3_ValidBelowSentinels ==
    (last.kind = "loss" /\ AllSlack) =>
        /\ LossLT(last.ret, CrashValue)
        /\ LossLT(last.ret, LowApogeeValue)
        /\ LossLT(last.ret, AllNanValue)

\* C4: in stage 2 every value returned for an in-bound candidate is
\* strictly below every value the fence returns for an out-of-bound one.
C4_FenceAboveInBound ==
    (last.op = "stage2" /\ InBounds(last.x) /\ last.kind # "raise") =>
        \A o \in OutVectors : LossLT(last.ret, FenceValue(o))

\* C5: a stage-2 candidate with a component outside its bound is answered
\* without calculate_loss: no simulation, no write to the rocket, the
\* tracker untouched; calculate_loss runs only for in-bound candidates.
C5_FenceSkipsEvaluation ==
    [][ /\ (last'.op = "stage2" /\ ~InBounds(last'.x)) =>
              /\ last'.kind = "fence"
              /\ ~last'.simRan
              /\ rocket' = rocket
              /\ launchRod' = launchRod
              /\ hasBest' = hasBest
              /\ best_apogee' = best_apogee
              /\ phase' = phase
        /\ (last'.op = "stage2" /\ last'.kind # "fence") => InBounds(last'.x)
      ]_vars

\* C5 witness: the fence answered an out-of-bound candidate after earlier
\* evaluations had configured the rocket and raised the tracker.
C5_Witness ==
    /\ last.op = "stage2"
    /\ last.kind = "fence"
    /\ ~InBounds(last.x)
    /\ rocket # InitialRocket
    /\ best_apogee > 0

\* Whether the last call wrote the fin set's axial offset.
WroteFinOffset ==
    /\ last.op \in EvalOps \cup {"verify"}
    /\ last.kind # "fence"
    /\ "Trapezoidal Fin Set" \in registry
    /\ finParent # "none"
    /\ \/ last.failAt = 0
       \/ \E k \in 1..(last.failAt - 1) :
             SetterCalls(registry, finParent)[k] = "finOffset"

NonNegative(n) == IF n < 0 THEN 0 ELSE n

\* C6: the axial offset written to the fin set is non-negative and equals
\* max(0, parent_length - root_chord - fin_bottom_offset).
C6_OffsetClamped ==
    WroteFinOffset =>
        /\ rocket.finOffset >= 0
        /\ rocket.finOffset = NonNegative(rocket.botLen - last.x[4] - last.x[7])

\* C7: an ordinary loss is >= 0 and at least the base term
\* ((|apogee - target| / 20)^2) * 100000; it is exactly the base term when
\* all five constraints hold, boundaries included; a minimum stability of
\* exactly 1.6 adds nothing, one below 1.6 adds a strictly positive amount.
C7_BasePlusPenalties ==
    last.kind = "loss" =>
        LET d    == last.apogee - last.target
            base == Whole(d * d * 250)
        IN  /\ LossLE(Whole(0), last.ret)
            /\ LossLE(base, last.ret)
            /\ AllSlack => last.ret = base
            /\ (\E i \in 1..Len(LastValid) :
                   LastValid[i].cls = "fin" /\ LastValid[i].v < 16)
                  => LossLT(LossAdd(base, Whole(100000000)), last.ret)
            /\ ~AllSlack => LossLT(base, last.ret)

\* C7 witness: minimum stability exactly 1.6, tip chord exactly twice the
\* root chord, rail-exit velocity exactly 13.0, apogee off target: the loss
\* is the base term alone.
C7_Witness ==
    /\ last.kind = "loss"
    /\ AllSlack
    /\ \E i \in 1..Len(LastValid) : LastValid[i] = St(16)
    /\ last.x[5] = 2 * last.x[4]
    /\ LastRailExitVel = 130
    /\ last.apogee = 3600
    /\ last.ret = Whole(1077444000)

\* C8: when every sample of a non-empty window is NaN or infinite, the
\* all-NaN sentinel is returned whatever the apogee.
C8_NonFiniteWindowIsDeath ==
    ( /\ last.op \in EvalOps
      /\ last.simRan /\ last.sim.ok
      /\ last.kind # "raise"
      /\ LET w == BoostStability(last.sim.data, RailLength(launchRod))
         IN  Len(w) > 0 /\ \A i \in 1..Len(w) : w[i].cls # "fin" )
    => last.ret = AllNanValue

\* C9: the tracker is reset to 0 by run_stage1_global alone, before the
\* run's first evaluation and not again within the run; every other step
\* leaves it or raises it, and calculate_loss raises it only to the apogee
\* just simulated.
C9_TrackerMonotone ==
    [][ /\ last'.op = "stage1_start" =>
              /\ phase \notin {"stage1", "stage2"}
              /\ hasBest' /\ best_apogee' = 0
        /\ phase' = "stage1" => hasBest'
        /\ last'.op # "stage1_start" =>
              /\ hasBest => (hasBest' /\ best_apogee' >= best_apogee)
              /\ \/ best_apogee' = best_apogee
                 \/ /\ IsCalcLoss(last')
                    /\ last'.simRan
                    /\ best_apogee' = last'.apogee
                    /\ best_apogee' = MaxOf(last'.sim.data.alt)
      ]_vars

\* C9 witness: in stage 2 a flight with a lower apogee than the best seen
\* was evaluated and the tracker kept the higher value.
C9_Witness ==
    /\ last.op = "stage2"
    /\ last.kind = "loss"
    /\ last.apogee = 1524
    /\ best_apogee = 3600

\* The fields of the components the registry holds are those of x.
PresentWritten(x) ==
    /\ "Top Tube" \in registry => rocket.topLen = x[1]
    /\ "Bottom Tube" \in registry => rocket.botLen = x[2]
    /\ "Trapezoidal Fin Set" \in registry =>
          /\ rocket.finHeight = x[3] /\ rocket.finRoot = x[4]
          /\ rocket.finTip = x[5] /\ rocket.finSweep = x[6]
    /\ "Var Mass" \in registry =>
          /\ rocket.massOverridden
          /\ rocket.overrideMass = x[8] /\ rocket.massOffset = x[9]

\* C10: with a named component missing (or the fin set without parent) and
\* no setter raising, calculate_loss and verify_and_save write the fields
\* of every component present and go on to the simulation without raising.
C10_MissingNonFatal ==
    ( /\ last.op \in EvalOps \cup {"verify"}
      /\ last.kind # "fence"
      /\ last.failAt = 0
      /\ (registry # ComponentNames \/ finParent = "none") )
    => /\ PresentWritten(last.x)
       /\ last.simRan
       /\ (last.simRan /\ last.sim.ok /\ last.op = "verify") => last.kind # "raise"

\* The metrics of the last evaluated flight and the penalty terms they got.
LastMinStab == MinStab(LastValid)
LastAvgStab == AvgStab(LastValid)
FiniteMetrics ==
    /\ last.kind = "loss"
    /\ LastMinStab.cls = "fin"
    /\ LastAvgStab.cls = "fin"

\* A penalty p1 for violation magnitude m1 against p2 for m2 (magnitudes
\* in the same unit): the larger magnitude gets at least as much, and
\* strictly more when it is a violation.
MonotonePair(m1, p1, m2, p2) ==
    /\ m1 <= m2 => LossLE(p1, p2)
    /\ m2 <= m1 => LossLE(p2, p1)
    /\ (m1 < m2 /\ m2 > 0) => LossLT(p1, p2)
    /\ (m2 < m1 /\ m1 > 0) => LossLT(p2, p1)

\* C11: each of the five penalty terms is monotone in its violation
\* magnitude (1.6 - min_stab, avg_stab - 2, fin_sweep - 2*root_chord,
\* tip_chord - 2*root_chord, 13.0 - rail_exit_vel): of two evaluations the
\* one with the larger magnitude gets at least as large a penalty from
\* that term, and a strictly larger one when the magnitude is strictly
\* larger.  The last evaluation is compared with every other candidate,
\* stability value and velocity.
C11_PenaltiesMonotone ==
    FiniteMetrics =>
        /\ \A v \in {12, 14, 16, 24} :
              MonotonePair(16 - LastMinStab.v, InstabilityPenalty(LastMinStab),
                           16 - v, InstabilityPenalty(St(v)))
        /\ \A v \in {12, 16, 20, 24, 30} :
              LET other == AvgStab(<<St(v)>>)
              IN  MonotonePair(
                     (LastAvgStab.num - 2 * LastAvgStab.den) * other.den,
                     OverstabilityPenalty(LastAvgStab),
                     (other.num - 2 * other.den) * LastAvgStab.den,
                     OverstabilityPenalty(other))
        /\ \A v \in {110, 120, 130, 140} :
              MonotonePair(130 - LastRailExitVel, RailVelPenalty(LastRailExitVel),
                           130 - v, RailVelPenalty(v))
        /\ \A y \in CompareVectors :
              /\ MonotonePair(last.x[6] - 2 * last.x[4], SweepPenalty(last.x),
                              y[6] - 2 * y[4], SweepPenalty(y))
              /\ MonotonePair(last.x[5] - 2 * last.x[4], TipPenalty(last.x),
                              y[5] - 2 * y[4], TipPenalty(y))

\* The part of C11 the stability and velocity terms satisfy.
C11_StabilityTermsMonotone ==
    FiniteMetrics =>
        /\ \A v \in {12, 14, 16, 24} :
              MonotonePair(16 - LastMinStab.v, InstabilityPenalty(LastMinStab),
                           16 - v, InstabilityPenalty(St(v)))
        /\ \A v \in {12, 16, 20, 24, 30} :
              LET other == AvgStab(<<St(v)>>)
              IN  MonotonePair(
                     (LastAvgStab.num - 2 * LastAvgStab.den) * other.den,
                     OverstabilityPenalty(LastAvgStab),
                     (other.num - 2 * other.den) * LastAvgStab.den,
                     OverstabilityPenalty(other))
        /\ \A v \in {110, 120, 130, 140} :
              MonotonePair(130 - LastRailExitVel, RailVelPenalty(LastRailExitVel),
                           130 - v, RailVelPenalty(v))

\* tip_chord - 2 * root_chord
TipExcess(x) == x[5] - 2 * x[4]

\* C12: when tip_chord exceeds 2 * root_chord the tip-chord penalty is
\* positive and proportional to (tip_chord - 2 * root_chord): candidates
\* with the same excess get the same penalty, and one with twice the
\* excess gets twice the penalty.
C12_TipPenaltyProportional ==
    (last.kind = "loss" /\ TipExcess(last.x) > 0) =>
        /\ LossLT(Whole(0), TipPenalty(last.x))
        /\ \A y \in CompareVectors :
              /\ TipExcess(y) = TipExcess(last.x) =>
                    TipPenalty(y) = TipPenalty(last.x)
              /\ TipExcess(y) = 2 * TipExcess(last.x) =>
                    TipPenalty(y) = LossAdd(TipPenalty(last.x), TipPenalty(last.x))

\* The part of C12 that holds: the penalty of a tip chord above twice the
\* root chord is positive.
C12_TipPenaltyPositive ==
    (last.kind = "loss" /\ TipExcess(last.x) > 0) =>
        LossLT(Whole(0), TipPenalty(last.x))

\* The last call simulated a flight of apogee >= 100 whose powered-ascent
\* window is empty (end_index <= start_index).
EmptyWindowFlight ==
    /\ last.op \in EvalOps
    /\ last.simRan
    /\ last.sim.ok
    /\ last.apogee >= MIN_APOGEE
    /\ EndIndex(last.sim.data) <= StartIndex(last.sim.data, last.rail)

\* C13: for a simulated flight of apogee >= 100 whose powered-ascent window
\* is empty, calculate_loss returns the instant-death sentinel as a value:
\* it does not raise and the enclosing search is not aborted.
C13_EmptyWindowIsDeath ==
    EmptyWindowFlight =>
        /\ last.kind # "raise"
        /\ last.ret = AllNanValue
        /\ phase # "aborted"

\* max(configured launch-rod length, 2.44 m), in cm
MaxRail(configured) ==
    IF configured >= MIN_RAIL_CM THEN configured ELSE MIN_RAIL_CM

\* The step is a call of op that located the rail-exit start index.
LocatesRailExit(ops) ==
    /\ last'.op \in ops
    /\ last'.simRan
    /\ last'.sim.ok
    /\ last'.kind \in {"loss", "noValidStab", "raise", "report"}

\* C14: in calculate_loss and in verify_and_save the rail length used to
\* locate the rail-exit start index is max(configured launch-rod length,
\* 2.44): a shorter configured length is raised to 2.44, a configured
\* length of 2.44 or more is used unchanged, and no call lowers the
\* configured length.
C14_RailNeverLowered ==
    [][ LocatesRailExit(EvalOps \cup {"verify"}) =>
            /\ last'.rail = MaxRail(launchRod)
            /\ launchRod' >= launchRod ]_vars

\* The part of C14 that holds: calculate_loss uses max(configured, 2.44)
\* and leaves the configured length alone.
C14_CalcLossRailClamped ==
    [][ LocatesRailExit(EvalOps) =>
            /\ last'.rail = MaxRail(launchRod)
            /\ launchRod' = launchRod ]_vars

====
